---- MODULE Spec2Model ----
(***************************************************************************)
(* A model of the cateyes event codec (cateyes/utils.py) and of its        *)
(* threshold classifiers (cateyes/classification.py).                      *)
(*                                                                         *)
(* Numbers.  Sample times are integers counted in ticks (TicksPerSec ticks *)
(* to the second).  Gaze coordinates are integers and the inputs are drawn *)
(* so that every inter-sample displacement has an integer Euclidean norm.  *)
(* A sampling rate is the exact fraction num/den (in Hz), and so are the   *)
(* thresholds.  Arithmetic is exact, with one exception: the quotients     *)
(* that decide the length of np.arange in sfreq_to_times are rounded as    *)
(* IEEE 754 double precision rounds them, because the length depends on    *)
(* the rounding.                                                           *)
(*                                                                         *)
(* Labels are character sequences, so that numpy's conversion of the fill  *)
(* value None to the dtype of the label array (str(None) cut to the width  *)
(* of the dtype) is computed, not assumed.                                 *)
(***************************************************************************)
EXTENDS Integers, Sequences, FiniteSets, TLC

VARIABLES
    \* ---- event codec (utils.py) ----
    times,            \* sampling times of the recording (ticks)
    discrete_times,   \* discrete event list: times ...
    discrete_values,  \* ... and values
    indices,          \* continuous form: event index per sample ...
    values,           \* ... and value per sample
    calls,            \* the codec functions applied so far, in order
    orig,             \* the arrays the caller passed in (for comparison)
    warned,           \* warnings emitted so far
    raised,           \* "" or the name of the exception raised
    \* ---- classifiers (classification.py): arguments ----
    x, y,             \* gaze coordinates
    time,             \* sampling rate (scalar) or array of sampling times
    threshold,        \* velocity / dispersion threshold
    window_len,       \* dispersion window in seconds, as a fraction <<p, q>>
    return_discrete,  \* output format flag
    th_init,          \* MAD: the argument th_0 as the caller passed it
    th_0,             \* MAD: the threshold under trial (a fraction)
    \* ---- classifiers: locals and results ----
    pc,               \* the function running and the place it is at
    sfreq,            \* sampling rate in Hz, as a fraction <<p, q>>
    sample_thresh,    \* classify_velocity: threshold per sample (fraction)
    vels,             \* sample-aligned velocity array
    segments, classes,\* the classifier's output
    n_samples, i_start, i_stop, seg_idx,   \* classify_dispersion's window walk
    threshs, angular_vel, saccade_thresh,  \* mad_velocity_thresh's iteration
    \* ---- get_segment_distance (utils.py) ----
    from_discrete, return_start_end_pos,   \* its flags
    seg_times, start_pos, end_pos, distances,   \* its locals
    result            \* what it returns (out)

codecVars == <<discrete_times, discrete_values, indices, values, calls, orig>>

argVars == <<x, y, time, threshold, window_len, return_discrete, th_init>>

localVars == <<sfreq, sample_thresh, vels, segments, classes, n_samples,
               i_start, i_stop, seg_idx, th_0, threshs, angular_vel,
               saccade_thresh>>

geomVars == <<from_discrete, return_start_end_pos, seg_times, start_pos,
              end_pos, distances, result>>

vars == <<times, warned, raised, pc, codecVars, argVars, localVars, geomVars>>

(***************************************************************************)
(* Bounds of the model.                                                    *)
(***************************************************************************)
MaxTime == 3      \* sample and event times range over 0..MaxTime ticks
MaxEvents == 2    \* longest discrete event list drawn as an input
MaxIndex == 2     \* continuous inputs carry indices 0..MaxIndex
MaxSamples == 3   \* longest gaze recording given to classify_velocity
MaxRate == 2      \* scalar sampling rates are the divisors of MaxRate (Hz)
MaxWalk == 4      \* longest gaze recording given to classify_dispersion
MaxPopulation == 4  \* longest gaze recording given to mad_velocity_thresh
MaxGaze == 5     \* longest gaze recording given to _get_time
MaxHz == 3       \* scalar rates given to _get_time range over -MaxHz..MaxHz
MaxSpan == 3     \* longest recording given to get_segment_distance
MaxTrail == 5    \* longest recording whose window walk is followed to its end

\* ticks to the second: the finest grid on which every synthesised sample
\* time i / sfreq is a whole number
TicksPerSec == MaxRate

(***************************************************************************)
(* Generic helpers.                                                        *)
(***************************************************************************)
SeqsUpTo(S, n) == UNION {[1..k -> S] : k \in 0..n}

Range(s) == {s[i] : i \in DOMAIN s}

Take(s, n) == IF Len(s) <= n THEN s ELSE SubSeq(s, 1, n)

MaxOf(S) == CHOOSE m \in S : \A k \in S : k <= m

MinOf(S) == CHOOSE m \in S : \A k \in S : m <= k

StrictlyIncreasing(s) == \A i \in 1..(Len(s) - 1) : s[i] < s[i + 1]

NonDecreasing(s) == \A i \in 1..(Len(s) - 1) : s[i] <= s[i + 1]

(***************************************************************************)
(* Labels.  CLASSES maps the classifier codes to these strings; the entry  *)
(* for the code None is the string "None".                                 *)
(***************************************************************************)
Fixation == <<"F", "i", "x", "a", "t", "i", "o", "n">>
Saccade == <<"S", "a", "c", "c", "a", "d", "e">>
PSO == <<"P", "S", "O">>
NoneLabel == <<"N", "o", "n", "e">>

CLASSES == {Fixation, Saccade, PSO, NoneLabel}

\* str(None), the text numpy writes when None is cast to a string dtype
StrOfNone == <<"N", "o", "n", "e">>

\* float('nan'), what None becomes when cast to a float dtype
NaNValue == <<"nan">>

(***************************************************************************)
(* numpy dtype of np.array(discrete_values): a list of strings gives the   *)
(* unicode dtype as wide as its longest element, the empty list float64.   *)
(***************************************************************************)
ArrayDtype(vals) ==
    IF Len(vals) = 0
    THEN [kind |-> "f8", width |-> 0]
    ELSE [kind |-> "U", width |-> MaxOf({Len(vals[i]) : i \in DOMAIN vals})]

\* np.full(n, None).astype(dtype)[i]
NoneAsType(dtype) ==
    IF dtype.kind = "f8" THEN NaNValue ELSE Take(StrOfNone, dtype.width)

\* values[selected] = dis_val : the stored element is cut to the dtype
StoreAs(val, dtype) ==
    IF dtype.kind = "f8" THEN val ELSE Take(val, dtype.width)

(***************************************************************************)
(* sorted(zip(discrete_times, discrete_values), key=lambda x: x[0]):       *)
(* a stable sort of the (time, value) pairs by time.                       *)
(***************************************************************************)
Zip(ts, vs) ==
    LET n == IF Len(ts) <= Len(vs) THEN Len(ts) ELSE Len(vs)
    IN  [k \in 1..n |-> <<ts[k], vs[k]>>]

\* (mutant) p goes before the elements of its own time: the sort is not stable
RECURSIVE InsertByTime_Unstable(_, _)
InsertByTime_Unstable(sorted, p) ==
    IF sorted = <<>> THEN <<p>>
    ELSE IF sorted[Len(sorted)][1] < p[1] THEN Append(sorted, p)
    ELSE Append(InsertByTime_Unstable(SubSeq(sorted, 1, Len(sorted) - 1), p),
                sorted[Len(sorted)])

RECURSIVE InsertByTime(_, _)
InsertByTime(sorted, p) ==
    \* p goes after every element whose time is <= its own (stability)
    IF sorted = <<>> THEN <<p>>
    ELSE IF sorted[Len(sorted)][1] <= p[1] THEN Append(sorted, p)
    ELSE Append(InsertByTime(SubSeq(sorted, 1, Len(sorted) - 1), p),
                sorted[Len(sorted)])

\* (mutant) the pairs are taken in the order given
SortedByTime_AsGiven(pairs) == pairs

RECURSIVE SortedByTime(_)
SortedByTime(pairs) ==
    IF pairs = <<>> THEN <<>>
    ELSE InsertByTime(SortedByTime(SubSeq(pairs, 1, Len(pairs) - 1)),
                      pairs[Len(pairs)])

(***************************************************************************)
(* discrete_to_continuous(times, discrete_times, discrete_values)          *)
(***************************************************************************)
\* (mutant) selected = times > dis_time
FillFrom_StrictlyLater(ts, cont, idx, dis_time, dis_val, dtype) ==
    [indices |-> [i \in DOMAIN ts |->
                    IF ts[i] > dis_time THEN idx + 1 ELSE cont.indices[i]],
     values  |-> [i \in DOMAIN ts |->
                    IF ts[i] > dis_time THEN StoreAs(dis_val, dtype)
                    ELSE cont.values[i]]]

\* one pass of the fill loop: selected = times >= dis_time
FillFrom(ts, cont, idx, dis_time, dis_val, dtype) ==
    [indices |-> [i \in DOMAIN ts |->
                    IF ts[i] >= dis_time THEN idx + 1 ELSE cont.indices[i]],
     values  |-> [i \in DOMAIN ts |->
                    IF ts[i] >= dis_time THEN StoreAs(dis_val, dtype)
                    ELSE cont.values[i]]]

RECURSIVE FillLoop(_, _, _, _, _)
FillLoop(ts, time_val_sorted, k, cont, dtype) ==
    \* k counts the events already written (enumerate's idx)
    IF k >= Len(time_val_sorted) THEN cont
    ELSE FillLoop(ts, time_val_sorted, k + 1,
                  FillFrom(ts, cont, k, time_val_sorted[k + 1][1],
                           time_val_sorted[k + 1][2], dtype),
                  dtype)

discrete_to_continuous(ts, dts, dvs) ==
    LET time_val_sorted == SortedByTime(Zip(dts, dvs))
        dtype == ArrayDtype(dvs)
        empty == [indices |-> [i \in DOMAIN ts |-> 0],
                  values  |-> [i \in DOMAIN ts |-> NoneAsType(dtype)]]
    IN  FillLoop(ts, time_val_sorted, 0, empty, dtype)

\* the guard against passing a continuous array
WarnCont(ts, dts) == IF Len(dts) = Len(ts) THEN {"WARN_CONT"} ELSE {}

(***************************************************************************)
(* continuous_to_discrete(times, indices, values)                          *)
(***************************************************************************)
\* (mutant) cur_idx = idx is left out of the loop body
RECURSIVE EmitLoop_KeepsSeed(_, _, _, _, _, _)
EmitLoop_KeepsSeed(ts, idxs, vals, k, cur_idx, out) ==
    IF k > Len(ts) THEN out
    ELSE EmitLoop_KeepsSeed(ts, idxs, vals, k + 1, cur_idx,
                  IF idxs[k] > cur_idx
                  THEN [times  |-> Append(out.times, ts[k]),
                        values |-> Append(out.values, vals[k])]
                  ELSE out)

RECURSIVE EmitLoop(_, _, _, _, _, _)
EmitLoop(ts, idxs, vals, k, cur_idx, out) ==
    IF k > Len(ts) THEN out
    ELSE EmitLoop(ts, idxs, vals, k + 1, idxs[k],
                  IF idxs[k] > cur_idx
                  THEN [times  |-> Append(out.times, ts[k]),
                        values |-> Append(out.values, vals[k])]
                  ELSE out)

\* (mutant) the length check is left out; zip stops at the shortest array
continuous_to_discrete_Unchecked(ts, idxs, vals) ==
    IF Len(idxs) = 0
    THEN [raised |-> "ValueError", times |-> <<>>, values |-> <<>>]
    ELSE LET n == MinOf({Len(ts), Len(idxs), Len(vals)})
             out == EmitLoop(Take(ts, n), Take(idxs, n), Take(vals, n), 1,
                             MinOf(Range(idxs)) - 1,
                             [times |-> <<>>, values |-> <<>>])
         IN  [raised |-> "", times |-> out.times, values |-> out.values]

\* (mutant) the walk is seeded with the least index itself: cur_idx = np.min(indices)
continuous_to_discrete_SeedAtMin(ts, idxs, vals) ==
    IF Len(ts) # Len(idxs) \/ Len(ts) # Len(vals) \/ Len(idxs) = 0
    THEN [raised |-> "ValueError", times |-> <<>>, values |-> <<>>]
    ELSE LET out == EmitLoop(ts, idxs, vals, 1, MinOf(Range(idxs)),
                             [times |-> <<>>, values |-> <<>>])
         IN  [raised |-> "", times |-> out.times, values |-> out.values]

continuous_to_discrete(ts, idxs, vals) ==
    IF Len(ts) # Len(idxs) \/ Len(ts) # Len(vals)
    THEN [raised |-> "ValueError", times |-> <<>>, values |-> <<>>]
    ELSE IF Len(idxs) = 0
    THEN \* np.min of an empty array
         [raised |-> "ValueError", times |-> <<>>, values |-> <<>>]
    ELSE LET out == EmitLoop(ts, idxs, vals, 1, MinOf(Range(idxs)) - 1,
                             [times |-> <<>>, values |-> <<>>])
         IN  [raised |-> "", times |-> out.times, values |-> out.values]

(***************************************************************************)
(* Fractions <<p, q>> with q > 0, in lowest terms; <<0, 0>> is not-a-number *)
(* and compares false with everything, as IEEE nan does.                   *)
(***************************************************************************)
RECURSIVE GCD(_, _)
GCD(a, b) == IF b = 0 THEN a ELSE GCD(b, a % b)

Abs(n) == IF n < 0 THEN -n ELSE n

NaN == <<0, 0>>

IsNaN(f) == f[2] = 0

Frac(p, q) ==
    IF q = 0 THEN NaN
    ELSE LET g == GCD(Abs(p), Abs(q))
             sgn == IF q < 0 THEN -1 ELSE 1
         IN  <<sgn * (p \div g), sgn * (q \div g)>>

FracMul(a, b) == IF IsNaN(a) \/ IsNaN(b) THEN NaN ELSE Frac(a[1] * b[1], a[2] * b[2])

FracDiv(a, b) == IF IsNaN(a) \/ IsNaN(b) THEN NaN ELSE Frac(a[1] * b[2], a[2] * b[1])

FracSub(a, b) ==
    IF IsNaN(a) \/ IsNaN(b) THEN NaN
    ELSE Frac(a[1] * b[2] - b[1] * a[2], a[2] * b[2])

FracLT(a, b) == ~IsNaN(a) /\ ~IsNaN(b) /\ a[1] * b[2] < b[1] * a[2]

FracGT(a, b) == FracLT(b, a)

FracLE(a, b) == ~IsNaN(a) /\ ~IsNaN(b) /\ a[1] * b[2] <= b[1] * a[2]

\* int(f): truncation towards zero (f >= 0 here)
FracInt(f) == f[1] \div f[2]

(***************************************************************************)
(* Double precision division, for np.arange.  A non-negative double is the *)
(* record [m, e] of value m * 2^e; m is a whole number held in two limbs   *)
(* <<hi, lo>> = hi * Limb + lo, and after a division it has MantissaBits   *)
(* bits.  FloatDiv rounds to nearest, ties to even, as the hardware does.  *)
(* The operations that loop are functions, so that each step works on      *)
(* values.                                                                 *)
(***************************************************************************)
MantissaBits == 53

Limb == 134217728     \* 2^27

Big == Nat \X Nat

Float == [m : Big, e : Int]

BigZero == <<0, 0>>

BigGeq(a, b) == a[1] > b[1] \/ (a[1] = b[1] /\ a[2] >= b[2])

\* a - b, for a >= b
BigSub(a, b) ==
    IF a[2] >= b[2] THEN <<a[1] - b[1], a[2] - b[2]>>
    ELSE <<a[1] - b[1] - 1, a[2] + Limb - b[2]>>

BigDbl(a) == <<2 * a[1] + ((2 * a[2]) \div Limb), (2 * a[2]) % Limb>>

BigInc(a) == IF a[2] + 1 = Limb THEN <<a[1] + 1, 0>> ELSE <<a[1], a[2] + 1>>

BigHalf(a) == <<a[1] \div 2, (a[2] + (a[1] % 2) * Limb) \div 2>>

BigOdd(a) == a[2] % 2 = 1

BigPow2[k \in Nat] == IF k = 0 THEN <<0, 1>> ELSE BigDbl(BigPow2[k - 1])

\* the least and one more than the greatest mantissa of MantissaBits bits
MinMantissa == BigPow2[MantissaBits - 1]
EndMantissa == BigPow2[MantissaBits]

\* the double that holds the whole number n >= 0 (n < Limb) exactly
FloatOf(n) == [m |-> <<0, n>>, e |-> 0]

\* a quotient being scaled: numerator, denominator, exponent
AlignState == [num : Big, den : Big, e : Int]

\* scale num or den by powers of two until den <= num < 2 * den
Align[s \in AlignState] ==
    IF ~BigGeq(s.num, s.den)
    THEN Align[[s EXCEPT !.num = BigDbl(s.num), !.e = s.e - 1]]
    ELSE IF BigGeq(s.num, BigDbl(s.den))
    THEN Align[[s EXCEPT !.den = BigDbl(s.den), !.e = s.e + 1]]
    ELSE s

\* a long division under way: remainder, divisor, mantissa so far
DivLoopState == [r : Big, d : Big, m : Big]

\* long division, one quotient bit a step, until m has MantissaBits bits;
\* r is twice the remainder
DivLoop[s \in DivLoopState] ==
    IF BigGeq(s.m, MinMantissa) THEN s
    ELSE IF BigGeq(s.r, s.d)
    THEN DivLoop[[s EXCEPT !.r = BigDbl(BigSub(s.r, s.d)), !.m = BigInc(BigDbl(s.m))]]
    ELSE DivLoop[[s EXCEPT !.r = BigDbl(s.r), !.m = BigDbl(s.m)]]

\* p[1] / p[2] for doubles p[1] >= 0 and p[2] > 0
FloatDiv[p \in Float \X Float] ==
    IF p[1].m = BigZero THEN [m |-> BigZero, e |-> 0]
    ELSE LET al == Align[[num |-> p[1].m, den |-> p[2].m, e |-> 0]]
             q == DivLoop[[r |-> al.num, d |-> al.den, m |-> BigZero]]
             \* the bits cut off are q.r / (2 * den) of the last place
             up == \/ (BigGeq(q.r, al.den) /\ q.r # al.den)
                   \/ (q.r = al.den /\ BigOdd(q.m))
             m == IF up THEN BigInc(q.m) ELSE q.m
             e == al.e + p[1].e - p[2].e - (MantissaBits - 1)
         IN  IF m = EndMantissa      \* rounded up to the next binade
             THEN [m |-> MinMantissa, e |-> e + 1]
             ELSE [m |-> m, e |-> e]

\* a shift under way: mantissa, bits to go, whether a 1 was lost
ShiftRightState == [m : Big, k : Nat, sticky : BOOLEAN]

\* m / 2^k and whether a 1 was shifted out
ShiftRight[s \in ShiftRightState] ==
    IF s.k = 0 THEN s
    ELSE ShiftRight[[m |-> BigHalf(s.m), k |-> s.k - 1,
                     sticky |-> s.sticky \/ BigOdd(s.m)]]

\* ceil(f) for a double 0 <= f < Limb
FloatCeil[f \in Float] ==
    IF f.m = BigZero THEN 0
    ELSE LET sh == ShiftRight[[m |-> f.m, k |-> -f.e, sticky |-> FALSE]]
         IN  sh.m[2] + (IF sh.sticky THEN 1 ELSE 0)

(***************************************************************************)
(* _get_time(x, time, warn_sfreq=True) and sfreq_to_times(x, sfreq).       *)
(* The argument is [iter |-> TRUE, t |-> array of times] or                *)
(* [iter |-> FALSE, hz |-> rate]; hasattr(time, '__iter__') tells which.   *)
(***************************************************************************)
\* len(np.arange(0, n / hz, 1. / hz)) = ceil((stop - start) / step), each
\* quotient a double; stop and step have the sign of hz, so the signs cancel
ArangeLength[p \in Nat \X Int] ==
    LET n == p[1]
        hz == Abs(p[2])
        stop == FloatDiv[<<FloatOf(n), FloatOf(hz)>>]
        step == FloatDiv[<<FloatOf(1), FloatOf(hz)>>]
    IN  FloatCeil[FloatDiv[<<stop, step>>]]

\* ArangeLength for every recording length and every scalar rate that occurs
\* here, worked out once
ArangeTable ==
    {<<p, ArangeLength[p]>> :
        p \in (0..MaxOf({MaxSamples, MaxWalk, MaxPopulation, MaxGaze, MaxTrail}))
                \X ((((-MaxHz)..MaxHz) \cup (1..MaxRate)) \ {0})}

LengthOfArange(n, hz) == (CHOOSE t \in ArangeTable : t[1] = <<n, hz>>)[2]

\* np.arange(0, len(x) / sfreq, 1. / sfreq) + 0: element i is i * step.
\* The elements are kept in ticks, as exact fractions (the code's differ from
\* them by the rounding of step)
sfreq_to_times(gaze_array, hz) ==
    [i \in 1..LengthOfArange(Len(gaze_array), hz) |-> Frac((i - 1) * TicksPerSec, hz)]

\* times[1:] - times[:-1]
Deltas(t) == [i \in 1..(Len(t) - 1) |-> t[i + 1] - t[i]]

\* np.std(deltas) > 1e-5 : deltas are whole ticks, so their standard
\* deviation is either 0 or far above 1e-5 s (and nan > 1e-5 is false)
Irregular(t) == \E i, j \in DOMAIN Deltas(t) : Deltas(t)[i] # Deltas(t)[j]

\* (mutant) the rate is taken from the first step alone
MeanRate_FirstStep(t) ==
    IF Len(t) < 2 THEN NaN ELSE Frac(TicksPerSec, t[2] - t[1])

\* 1. / np.mean(deltas) : the deltas sum to t[-1] - t[0]; the mean of no
\* deltas is nan
MeanRate(t) ==
    IF Len(t) < 2 THEN NaN
    ELSE Frac((Len(t) - 1) * TicksPerSec, t[Len(t)] - t[1])

get_time(gaze_array, tm) ==
    IF tm.iter
    THEN [raised |-> "",
          times  |-> tm.t,
          sfreq  |-> MeanRate(tm.t),
          warned |-> IF Irregular(tm.t) THEN {"WARN_SFREQ"} ELSE {}]
    ELSE IF tm.hz = 0
    THEN \* len(gaze_array) / sfreq divides by zero
         [raised |-> "ZeroDivisionError", times |-> <<>>, sfreq |-> NaN,
          warned |-> {}]
    ELSE [raised |-> "",
          times  |-> sfreq_to_times(gaze_array, tm.hz),
          sfreq  |-> Frac(tm.hz, 1),
          warned |-> {}]

(***************************************************************************)
(* Movement velocities: np.linalg.norm(gaze[:, 1:] - gaze[:, :-1], axis=0) *)
(***************************************************************************)
\* no step of a recording drawn here is longer than this
MaxNorm == 20

SquaredStep(xs, ys, i) ==
    (xs[i + 1] - xs[i]) * (xs[i + 1] - xs[i]) + (ys[i + 1] - ys[i]) * (ys[i + 1] - ys[i])

\* the whole-number square root of n, where it has one (n <= MaxNorm ^ 2)
IsSquare(n) == \E r \in 0..MaxNorm : r * r = n

ISqrt(n) == CHOOSE r \in 0..MaxNorm : r * r = n

\* the recordings whose steps all have a whole-number length
ExactNorms(xs, ys) == \A i \in 1..(Len(xs) - 1) : IsSquare(SquaredStep(xs, ys, i))

StepNorms(xs, ys) == [i \in 1..(Len(xs) - 1) |-> ISqrt(SquaredStep(xs, ys, i))]

\* classify_velocity: np.concatenate([vels, [0.]])
VelsOfClassify(xs, ys) == StepNorms(xs, ys) \o <<0>>

\* mad_velocity_thresh: np.concatenate([[0.], vels])
VelsOfMad(xs, ys) == <<0>> \o StepNorms(xs, ys)

(***************************************************************************)
(* classify_velocity                                                       *)
(***************************************************************************)
\* (mutant) classes[vels >= sample_thresh] = "Saccade"
ClassesByThreshold_NotStrict(v, sth) ==
    [i \in DOMAIN v |-> IF FracLT(Frac(v[i], 1), sth) THEN Fixation ELSE Saccade]

\* classes[:] = "Fixation"; classes[vels > sample_thresh] = "Saccade"
ClassesByThreshold(v, sth) ==
    [i \in DOMAIN v |-> IF FracGT(Frac(v[i], 1), sth) THEN Saccade ELSE Fixation]

\* group consecutive classes to one segment
RECURSIVE GroupLoop(_, _, _)
GroupLoop(cls, idx, segs) ==
    \* idx is the 1-based position written next; segs holds positions < idx
    IF idx > Len(cls) THEN segs
    ELSE GroupLoop(cls, idx + 1,
                   Append(segs, IF cls[idx] = cls[idx - 1]
                                THEN segs[idx - 1]
                                ELSE segs[idx - 1] + 1))

\* (mutant) the ordinals are counted from 1
GroupSegments_FromOne(cls) == IF Len(cls) = 0 THEN <<>> ELSE GroupLoop(cls, 2, <<1>>)

GroupSegments(cls) == IF Len(cls) = 0 THEN <<>> ELSE GroupLoop(cls, 2, <<0>>)

(***************************************************************************)
(* classify_dispersion                                                     *)
(***************************************************************************)
\* x[i_start:i_stop] (python's half-open, 0-based slice)
Slice(s, from, to) ==
    LET hi == IF to > Len(s) THEN Len(s) ELSE to
    IN  IF from >= hi THEN <<>> ELSE SubSeq(s, from + 1, hi)

\* _disp(win_x, win_y)
Disp(win_x, win_y) ==
    (MaxOf(Range(win_x)) - MinOf(Range(win_x)))
        + (MaxOf(Range(win_y)) - MinOf(Range(win_y)))

\* (mutant) ... and i_stop < len(x) - 1
RECURSIVE GrowWindow_StopsEarly(_, _, _, _, _)
GrowWindow_StopsEarly(xs, ys, thr, from, to) ==
    IF Disp(Slice(xs, from, to), Slice(ys, from, to)) <= thr /\ to < Len(xs) - 1
    THEN GrowWindow_StopsEarly(xs, ys, thr, from, to + 1)
    ELSE to

\* (mutant) the fixation is closed behind its first sample
GrowWindow_OneSample(xs, ys, thr, from, to) == from + 1

\* (mutant) the window is closed where it began: i_stop = i_start
GrowWindow_Stuck(xs, ys, thr, from, to) == from

\* the inner loop: while _disp(win) <= threshold and i_stop < len(x): i_stop += 1
RECURSIVE GrowWindow(_, _, _, _, _)
GrowWindow(xs, ys, thr, from, to) ==
    IF Disp(Slice(xs, from, to), Slice(ys, from, to)) <= thr /\ to < Len(xs)
    THEN GrowWindow(xs, ys, thr, from, to + 1)
    ELSE to

\* a[i_start:i_stop] = v
AssignSlice(a, from, to, v) ==
    [i \in DOMAIN a |-> IF from < i /\ i <= to THEN v ELSE a[i]]

(***************************************************************************)
(* mad_velocity_thresh                                                     *)
(***************************************************************************)
\* 3 * 1.48 = 111 / 25
MadFactorNum == 111
MadFactorDen == 25

RECURSIVE InsertSorted(_, _)
InsertSorted(sorted, v) ==
    IF sorted = <<>> THEN <<v>>
    ELSE IF sorted[Len(sorted)] <= v THEN Append(sorted, v)
    ELSE Append(InsertSorted(SubSeq(sorted, 1, Len(sorted) - 1), v),
                sorted[Len(sorted)])

RECURSIVE Sorted(_)
Sorted(s) ==
    IF s = <<>> THEN <<>>
    ELSE InsertSorted(Sorted(SubSeq(s, 1, Len(s) - 1)), s[Len(s)])

\* twice np.median(s) of a non-empty array of integers
TwiceMedian(s) ==
    LET srt == Sorted(s)
        n == Len(s)
    IN  IF n % 2 = 1 THEN 2 * srt[(n + 1) \div 2]
        ELSE srt[n \div 2] + srt[n \div 2 + 1]

RECURSIVE SelectBelow(_, _)
\* angular_vel[angular_vel < th_0]
SelectBelow(v, th) ==
    IF v = <<>> THEN <<>>
    ELSE IF FracLT(Frac(v[1], 1), th)
         THEN <<v[1]>> \o SelectBelow(Tail(v), th)
         ELSE SelectBelow(Tail(v), th)

\* th_1 = median + 3 * 1.48 * median(sqrt((angular_vel - median) ** 2));
\* np.median of the empty array is nan
NextThreshold(v) ==
    IF v = <<>> THEN NaN
    ELSE LET m2 == TwiceMedian(v)                         \* 2 * median
             dev2 == [i \in DOMAIN v |-> Abs(2 * v[i] - m2)]   \* 2 * |v - median|
             mad4 == TwiceMedian(dev2)                    \* 4 * MAD
         IN  Frac(2 * MadFactorDen * m2 + MadFactorNum * mad4, 4 * MadFactorDen)

\* (mutant) if (th_1 - th_0) > 1
GoesOn_Flipped(th_a, th_b) == FracGT(FracSub(th_b, th_a), Frac(1, 1))

\* if (th_0 - th_1) > 1: go on with th_1
GoesOn(th_a, th_b) == FracGT(FracSub(th_a, th_b), Frac(1, 1))

(***************************************************************************)
(* get_segment_distance(x, y, times, segments, from_discrete,              *)
(*                      return_start_end_pos)                              *)
(***************************************************************************)
\* the dtype of an array of floats
Float64 == [kind |-> "f8", width |-> 0]

\* (mutant) selected = np.logical_and(times >= cur, times < nxt)
SpanOf_HalfOpen(ts, st, k) ==
    {i \in DOMAIN ts : ts[i] >= st[k] /\ (k = Len(st) \/ ts[i] < st[k + 1])}

\* selected = np.logical_and(times >= cur, times <= nxt), nxt being the next
\* segment time, and np.inf behind the last one
SpanOf(ts, st, k) ==
    {i \in DOMAIN ts : ts[i] >= st[k] /\ (k = Len(st) \/ ts[i] <= st[k + 1])}

\* start_pos[idx] = sel_x[0], sel_y[0]
StartOf(xs, ys, span) == <<xs[MinOf(span)], ys[MinOf(span)]>>

\* end_pos[idx] = sel_x[-1], sel_y[-1]
EndOf(xs, ys, span) == <<xs[MaxOf(span)], ys[MaxOf(span)]>>

\* np.linalg.norm(end_pos - start_pos, axis=1)[idx]
DistanceOf(from, to) ==
    ISqrt((to[1] - from[1]) * (to[1] - from[1]) + (to[2] - from[2]) * (to[2] - from[2]))

\* (mutant) the distances are returned one per segment, not re-expanded
DistancesToContinuous_PerSegment(ts, st, dist) == dist

\* discrete_to_continuous(times, seg_times, distances)[1]
DistancesToContinuous(ts, st, dist) ==
    LET empty == [indices |-> [i \in DOMAIN ts |-> 0],
                  values  |-> [i \in DOMAIN ts |-> NoneAsType(Float64)]]
    IN  FillLoop(ts, SortedByTime(Zip(st, dist)), 0, empty, Float64).values

\* discrete_to_continuous(times, seg_times, pos)[1] for the rows pos[k] =
\* (x, y): values has the shape (len(times), 2), a row for each sample, and
\* values[selected] = row writes the row to every selected sample
PositionsToContinuous(ts, st, pos) ==
    LET empty == [indices |-> [i \in DOMAIN ts |-> 0],
                  values  |-> [i \in DOMAIN ts |-> <<NoneAsType(Float64),
                                                     NoneAsType(Float64)>>]]
    IN  FillLoop(ts, SortedByTime(Zip(st, pos)), 0, empty, Float64).values

\* the call ends with exception e and nothing computed
SegmentFailure(e, segs) ==
    [raised |-> e, warned |-> {}, segments |-> segs, seg_times |-> <<>>,
     start_pos |-> <<>>, end_pos |-> <<>>, distances |-> <<>>, out |-> <<>>]

\* from the sorted segment times on
SegmentGeometry(xs, ys, ts, segs, st, discrete, with_pos) ==
    IF \E k \in DOMAIN st : SpanOf(ts, st, k) = {}
    THEN \* sel_x[0] of an empty selection
         [SegmentFailure("IndexError", segs) EXCEPT !.seg_times = st]
    ELSE LET starts == [k \in DOMAIN st |-> StartOf(xs, ys, SpanOf(ts, st, k))]
             ends == [k \in DOMAIN st |-> EndOf(xs, ys, SpanOf(ts, st, k))]
             dist == [k \in DOMAIN st |-> DistanceOf(starts[k], ends[k])]
             done == [raised |-> "", warned |-> {}, segments |-> segs,
                      seg_times |-> st, start_pos |-> starts, end_pos |-> ends,
                      distances |-> dist, out |-> dist]
         IN  IF discrete
             THEN [done EXCEPT !.out = IF with_pos THEN <<dist, starts, ends>> ELSE dist]
             ELSE LET cdist == DistancesToContinuous(ts, st, dist)
                      cstarts == PositionsToContinuous(ts, st, starts)
                      cends == PositionsToContinuous(ts, st, ends)
                      warn == WarnCont(ts, st)
                  IN  [done EXCEPT !.out = IF with_pos THEN <<cdist, cstarts, cends>>
                                              ELSE cdist,
                                   !.warned = warn]

\* (mutant) the length check is applied to discrete segmentations too
get_segment_distance_AlwaysChecked(xs, ys, ts, segs, discrete, with_pos) ==
    IF Len(segs) # Len(ts)
    THEN SegmentFailure("ValueError", segs)
    ELSE IF discrete
    THEN SegmentGeometry(xs, ys, ts, segs, Sorted(segs), discrete, with_pos)
    ELSE LET dis == continuous_to_discrete(ts, segs, xs)
         IN  IF dis.raised # ""
             THEN SegmentFailure(dis.raised, segs)
             ELSE SegmentGeometry(xs, ys, ts, dis.times, Sorted(dis.times),
                                  discrete, with_pos)

\* (mutant) seg_times = segments: the events are taken in the order given
get_segment_distance_InputOrder(xs, ys, ts, segs, discrete, with_pos) ==
    IF ~discrete /\ Len(segs) # Len(ts)
    THEN SegmentFailure("ValueError", segs)
    ELSE IF discrete
    THEN SegmentGeometry(xs, ys, ts, segs, segs, discrete, with_pos)
    ELSE LET dis == continuous_to_discrete(ts, segs, xs)
         IN  IF dis.raised # ""
             THEN SegmentFailure(dis.raised, segs)
             ELSE SegmentGeometry(xs, ys, ts, dis.times, dis.times,
                                  discrete, with_pos)

get_segment_distance(xs, ys, ts, segs, discrete, with_pos) ==
    IF ~discrete /\ Len(segs) # Len(ts)
    THEN SegmentFailure("ValueError", segs)
    ELSE IF discrete
    THEN SegmentGeometry(xs, ys, ts, segs, Sorted(segs), discrete, with_pos)
    ELSE LET dis == continuous_to_discrete(ts, segs, xs)
         IN  IF dis.raised # ""
             THEN SegmentFailure(dis.raised, segs)
             ELSE SegmentGeometry(xs, ys, ts, dis.times, Sorted(dis.times),
                                  discrete, with_pos)

(***************************************************************************)
(* Values of the variables a specification does not use.                   *)
(***************************************************************************)
IdleCodec ==
    /\ discrete_times = <<>> /\ discrete_values = <<>>
    /\ indices = <<>> /\ values = <<>>
    /\ calls = <<>>
    /\ orig = [form |-> "none", a |-> <<>>, b |-> <<>>]

IdleArgs ==
    /\ x = <<>> /\ y = <<>>
    /\ time = [iter |-> FALSE, t |-> <<>>, hz |-> 1]
    /\ threshold = 0
    /\ window_len = <<0, 1>>
    /\ return_discrete = FALSE
    /\ th_init = 0

IdleLocals ==
    /\ sfreq = NaN /\ sample_thresh = NaN /\ vels = <<>>
    /\ segments = <<>> /\ classes = <<>>
    /\ n_samples = 0 /\ i_start = 0 /\ i_stop = 0 /\ seg_idx = 0
    /\ th_0 = NaN /\ threshs = <<>> /\ angular_vel = <<>> /\ saccade_thresh = NaN

IdleGeom ==
    /\ from_discrete = FALSE /\ return_start_end_pos = FALSE
    /\ seg_times = <<>> /\ start_pos = <<>> /\ end_pos = <<>>
    /\ distances = <<>> /\ result = <<>>

(***************************************************************************)
(* The codec as a state machine: the caller holds either a discrete event  *)
(* list or a continuous labelling and applies the two conversions one      *)
(* after the other.                                                        *)
(***************************************************************************)
SampleTimes ==
    {s \in SeqsUpTo(0..MaxTime, MaxTime + 1) : Len(s) >= 1 /\ StrictlyIncreasing(s)}

DiscreteInputs == SeqsUpTo((0..MaxTime) \X CLASSES, MaxEvents)

InitDiscrete ==
    /\ times \in SampleTimes
    /\ \E p \in DiscreteInputs :
         /\ discrete_times = [k \in DOMAIN p |-> p[k][1]]
         /\ discrete_values = [k \in DOMAIN p |-> p[k][2]]
    /\ indices = <<>>
    /\ values = <<>>
    /\ orig = [form |-> "discrete", a |-> discrete_times, b |-> discrete_values]

InitContinuous ==
    /\ times \in SampleTimes
    /\ indices \in [1..Len(times) -> 0..MaxIndex]
    /\ values \in [1..Len(times) -> {Fixation, Saccade}]
    /\ discrete_times = <<>>
    /\ discrete_values = <<>>
    /\ orig = [form |-> "continuous", a |-> indices, b |-> values]

\* arrays that are not one per sample: every sample of the index array its
\* own segment, so that a conversion would have something to emit
InitMismatched ==
    /\ times \in SampleTimes
    /\ \E k, m \in 0..(MaxTime + 2) :
         /\ k # Len(times) \/ m # Len(times)
         /\ indices = [i \in 1..k |-> i]
         /\ values = [i \in 1..m |-> IF i % 2 = 1 THEN Fixation ELSE Saccade]
    /\ discrete_times = <<>>
    /\ discrete_values = <<>>
    /\ orig = [form |-> "continuous", a |-> indices, b |-> values]

InitCodec ==
    /\ InitDiscrete \/ InitContinuous \/ InitMismatched
    /\ calls = <<>>
    /\ warned = {}
    /\ raised = ""
    /\ pc = "codec"
    /\ IdleArgs /\ IdleLocals /\ IdleGeom

DiscreteToContinuous ==
    /\ pc = "codec" /\ raised = ""
    /\ \/ calls = <<>> /\ orig.form = "discrete"
       \/ calls = <<"continuous_to_discrete">>
    /\ LET cont == discrete_to_continuous(times, discrete_times, discrete_values)
       IN  /\ indices' = cont.indices
           /\ values' = cont.values
    /\ warned' = warned \cup WarnCont(times, discrete_times)
    /\ calls' = Append(calls, "discrete_to_continuous")
    /\ UNCHANGED <<geomVars, times, discrete_times, discrete_values, orig, raised, pc,
                   argVars, localVars>>

ContinuousToDiscrete ==
    /\ pc = "codec" /\ raised = ""
    /\ \/ calls = <<>> /\ orig.form = "continuous"
       \/ calls = <<"discrete_to_continuous">>
    /\ LET dis == continuous_to_discrete(times, indices, values)
       IN  /\ raised' = dis.raised
           /\ discrete_times' = IF dis.raised = "" THEN dis.times ELSE discrete_times
           /\ discrete_values' = IF dis.raised = "" THEN dis.values ELSE discrete_values
    /\ calls' = Append(calls, "continuous_to_discrete")
    /\ UNCHANGED <<geomVars, times, indices, values, orig, warned, pc, argVars, localVars>>

NextCodec == DiscreteToContinuous \/ ContinuousToDiscrete

SpecCodec == InitCodec /\ [][NextCodec]_vars

(***************************************************************************)
(* Arguments of the classifiers.                                           *)
(***************************************************************************)
Rates == {r \in 1..MaxRate : MaxRate % r = 0}

\* the time arguments that fit a recording of n samples
TimeArgs(n) ==
    {[iter |-> FALSE, t |-> <<>>, hz |-> r] : r \in Rates}
        \cup {[iter |-> TRUE, t |-> s, hz |-> 0] :
                s \in {s \in SampleTimes : Len(s) = n /\ n >= 2}}

GazeX == {0, 5, 6, 10}
GazeY == {0, 8}
VelocityThresholds == {0, 5, 10}

\* the classifier's result in the caller's format
Returned(ts, segs, cls, discrete) ==
    IF discrete
    THEN LET dis == continuous_to_discrete(ts, segs, cls)
         IN  [raised |-> dis.raised, segments |-> dis.times, classes |-> dis.values]
    ELSE [raised |-> "", segments |-> segs, classes |-> cls]

(***************************************************************************)
(* classify_velocity(x, y, time, threshold, return_discrete)               *)
(***************************************************************************)
InitVelocity ==
    /\ \E n \in 1..MaxSamples :
         /\ time \in TimeArgs(n)
         /\ x \in [1..n -> GazeX]
         /\ y \in [1..n -> GazeY]
         /\ ExactNorms(x, y)
    /\ threshold \in VelocityThresholds
    /\ return_discrete \in BOOLEAN
    /\ window_len = <<0, 1>> /\ th_init = 0
    /\ pc = "classify_velocity"
    /\ times = <<>> /\ warned = {} /\ raised = ""
    /\ IdleCodec /\ IdleLocals /\ IdleGeom

ClassifyVelocity ==
    /\ pc = "classify_velocity"
    /\ LET tm == get_time(x, time)
           sth == FracDiv(Frac(threshold, 1), tm.sfreq)
           v == VelsOfClassify(x, y)
           cls == ClassesByThreshold(v, sth)
           segs == GroupSegments(cls)
           out == Returned(tm.times, segs, cls, return_discrete)
       IN  /\ times' = tm.times
           /\ sfreq' = tm.sfreq
           /\ warned' = warned \cup tm.warned
           /\ sample_thresh' = sth
           /\ vels' = v
           /\ raised' = out.raised
           /\ segments' = out.segments
           /\ classes' = out.classes
    /\ pc' = "done"
    /\ UNCHANGED <<geomVars, codecVars, argVars, n_samples, i_start, i_stop, seg_idx,
                   th_0, threshs, angular_vel, saccade_thresh>>

NextVelocity == ClassifyVelocity

SpecVelocity == InitVelocity /\ [][NextVelocity]_vars

(***************************************************************************)
(* classify_dispersion(x, y, time, threshold, window_len, return_discrete) *)
(* One step per pass of the outer while loop.                              *)
(***************************************************************************)
DispersionX == {0, 1, 2}
DispersionY == {0, 1}
DispersionThresholds == {0, 1}
WindowLens == {<<1, 2>>, <<1, 1>>, <<2, 1>>}

InitDispersion ==
    /\ \E n \in 1..MaxWalk :
         /\ time \in TimeArgs(n)
         /\ x \in [1..n -> DispersionX]
         /\ y \in [1..n -> DispersionY]
    /\ threshold \in DispersionThresholds
    /\ window_len \in WindowLens
    /\ return_discrete = FALSE    \* SpecVelocity exercises the discrete format
    /\ th_init = 0
    /\ pc = "classify_dispersion"
    /\ times = <<>> /\ warned = {} /\ raised = ""
    /\ IdleCodec /\ IdleLocals /\ IdleGeom

\* from the call to the head of the while loop
DispersionBegin ==
    /\ pc = "classify_dispersion"
    /\ LET tm == get_time(x, time)
       IN  /\ times' = tm.times
           /\ sfreq' = tm.sfreq
           /\ warned' = warned \cup tm.warned
           /\ n_samples' = FracInt(FracMul(tm.sfreq, window_len))
    /\ segments' = [i \in DOMAIN x |-> 0]
    /\ classes' = [i \in DOMAIN x |-> Saccade]
    /\ i_start' = 0
    /\ i_stop' = n_samples'
    /\ seg_idx' = 0
    /\ pc' = "while"
    /\ UNCHANGED <<geomVars, raised, codecVars, argVars, sample_thresh, vels, th_0,
                   threshs, angular_vel, saccade_thresh>>

InWindowLoop == pc = "while" /\ i_stop <= Len(x)

\* np.max of an empty window: "zero-size array to reduction operation"
DispersionEmptyWindow ==
    /\ InWindowLoop
    /\ Slice(x, i_start, i_stop) = <<>>
    /\ raised' = "ValueError"
    /\ pc' = "failed"
    /\ UNCHANGED <<geomVars, times, warned, codecVars, argVars, localVars>>

\* (mutant) seg_idx is not stepped on behind the fixation
DispersionFixation_OneStep ==
    /\ InWindowLoop
    /\ Slice(x, i_start, i_stop) # <<>>
    /\ Disp(Slice(x, i_start, i_stop), Slice(y, i_start, i_stop)) <= threshold
    /\ LET grown == GrowWindow(x, y, threshold, i_start, i_stop)
       IN  /\ classes' = AssignSlice(classes, i_start, grown, Fixation)
           /\ segments' = AssignSlice(segments, i_start, grown, seg_idx + 1)
           /\ i_start' = grown
           /\ i_stop' = grown + n_samples
    /\ seg_idx' = seg_idx + 1
    /\ UNCHANGED <<geomVars, times, warned, raised, pc, codecVars, argVars, sfreq,
                   sample_thresh, vels, n_samples, th_0, threshs, angular_vel,
                   saccade_thresh>>

\* the window is a fixation: grow it, mark it, start a new window behind it
DispersionFixation ==
    /\ InWindowLoop
    /\ Slice(x, i_start, i_stop) # <<>>
    /\ Disp(Slice(x, i_start, i_stop), Slice(y, i_start, i_stop)) <= threshold
    /\ LET grown == GrowWindow(x, y, threshold, i_start, i_stop)
       IN  /\ classes' = AssignSlice(classes, i_start, grown, Fixation)
           /\ segments' = AssignSlice(segments, i_start, grown, seg_idx + 1)
           /\ i_start' = grown
           /\ i_stop' = grown + n_samples
    /\ seg_idx' = seg_idx + 2
    /\ UNCHANGED <<geomVars, times, warned, raised, pc, codecVars, argVars, sfreq,
                   sample_thresh, vels, n_samples, th_0, threshs, angular_vel,
                   saccade_thresh>>

\* the window is no fixation: move it one sample further
DispersionSlide ==
    /\ InWindowLoop
    /\ Slice(x, i_start, i_stop) # <<>>
    /\ Disp(Slice(x, i_start, i_stop), Slice(y, i_start, i_stop)) > threshold
    /\ segments' = AssignSlice(segments, i_start, i_stop, seg_idx)
    /\ i_start' = i_start + 1
    /\ i_stop' = i_start + 1 + n_samples
    /\ UNCHANGED <<geomVars, times, warned, raised, pc, codecVars, argVars, sfreq,
                   sample_thresh, vels, classes, n_samples, seg_idx, th_0,
                   threshs, angular_vel, saccade_thresh>>

\* (mutant) the samples from i_start on are given the running ordinal
\* before the output is returned
DispersionReturn_Flushes ==
    /\ pc = "while" /\ i_stop > Len(x)
    /\ LET out == Returned(times, AssignSlice(segments, i_start, Len(x), seg_idx),
                           classes, return_discrete)
       IN  /\ raised' = out.raised
           /\ segments' = out.segments
           /\ classes' = out.classes
    /\ pc' = "done"
    /\ UNCHANGED <<geomVars, times, warned, codecVars, argVars, sfreq, sample_thresh,
                   vels, n_samples, i_start, i_stop, seg_idx, th_0, threshs,
                   angular_vel, saccade_thresh>>

\* the loop is left: return the output
DispersionReturn ==
    /\ pc = "while" /\ i_stop > Len(x)
    /\ LET out == Returned(times, segments, classes, return_discrete)
       IN  /\ raised' = out.raised
           /\ segments' = out.segments
           /\ classes' = out.classes
    /\ pc' = "done"
    /\ UNCHANGED <<geomVars, times, warned, codecVars, argVars, sfreq, sample_thresh,
                   vels, n_samples, i_start, i_stop, seg_idx, th_0, threshs,
                   angular_vel, saccade_thresh>>

NextDispersion ==
    \/ DispersionBegin
    \/ DispersionEmptyWindow
    \/ DispersionFixation
    \/ DispersionSlide
    \/ DispersionReturn

SpecDispersion == InitDispersion /\ [][NextDispersion]_vars

(***************************************************************************)
(* classify_dispersion on recordings long enough for the window to slide   *)
(* on after a fixation: x steps between two places, sampled at 1 Hz.       *)
(***************************************************************************)
TrailX == {0, 2}
TrailY == {0, 1}

InitTrailing ==
    /\ \E n \in 1..MaxTrail :
         /\ x \in [1..n -> TrailX]
         /\ y \in [1..n -> TrailY]
    /\ time = [iter |-> FALSE, t |-> <<>>, hz |-> 1]
    /\ threshold \in DispersionThresholds
    /\ window_len \in WindowLens
    /\ return_discrete = FALSE
    /\ th_init = 0
    /\ pc = "classify_dispersion"
    /\ times = <<>> /\ warned = {} /\ raised = ""
    /\ IdleCodec /\ IdleLocals /\ IdleGeom

SpecTrailing == InitTrailing /\ [][NextDispersion]_vars

(***************************************************************************)
(* mad_velocity_thresh(x, y, time, th_0, return_past_threshs=True)         *)
(* One step per pass of the while True loop.                               *)
(***************************************************************************)
MadX == {0, 1, 2, 4}
MadY == {0, 3}
DefaultTh0 == 200
InitialThresholds == {3, DefaultTh0}

InitMad ==
    /\ \E n \in 1..MaxPopulation :
         /\ time \in TimeArgs(n)
         /\ x \in [1..n -> MadX]
         /\ y \in [1..n -> MadY]
         /\ ExactNorms(x, y)
    /\ th_init \in InitialThresholds
    /\ th_0 = Frac(th_init, 1)
    /\ threshold = 0 /\ window_len = <<0, 1>> /\ return_discrete = FALSE
    /\ pc = "mad_velocity_thresh"
    /\ times = <<>> /\ warned = {} /\ raised = ""
    /\ IdleCodec /\ IdleGeom
    /\ sfreq = NaN /\ sample_thresh = NaN /\ vels = <<>>
    /\ segments = <<>> /\ classes = <<>>
    /\ n_samples = 0 /\ i_start = 0 /\ i_stop = 0 /\ seg_idx = 0
    /\ threshs = <<>> /\ angular_vel = <<>> /\ saccade_thresh = NaN

\* from the call to the head of the while loop
MadBegin ==
    /\ pc = "mad_velocity_thresh"
    /\ LET tm == get_time(x, time)
       IN  /\ times' = tm.times
           /\ sfreq' = tm.sfreq
           /\ warned' = warned \cup tm.warned
           /\ th_0' = FracDiv(th_0, tm.sfreq)
    /\ vels' = VelsOfMad(x, y)
    /\ angular_vel' = vels'
    /\ threshs' = <<>>
    /\ pc' = "while"
    /\ UNCHANGED <<geomVars, raised, codecVars, argVars, sample_thresh, segments, classes,
                   n_samples, i_start, i_stop, seg_idx, saccade_thresh>>

\* (th_0 - th_1) > 1 : try th_1 next
MadIterate ==
    /\ pc = "while"
    /\ LET below == SelectBelow(angular_vel, th_0)
           th_1 == NextThreshold(below)
       IN  /\ GoesOn(th_0, th_1)
           /\ threshs' = Append(threshs, th_0)
           /\ angular_vel' = below
           /\ th_0' = th_1
    /\ UNCHANGED <<geomVars, times, warned, raised, pc, codecVars, argVars, sfreq,
                   sample_thresh, vels, segments, classes, n_samples, i_start,
                   i_stop, seg_idx, saccade_thresh>>

\* otherwise th_1 is the result: revert the units and return
MadConverge ==
    /\ pc = "while"
    /\ LET below == SelectBelow(angular_vel, th_0)
           th_1 == NextThreshold(below)
           all == Append(Append(threshs, th_0), th_1)
       IN  /\ ~GoesOn(th_0, th_1)
           /\ angular_vel' = below
           /\ saccade_thresh' = FracMul(th_1, sfreq)
           /\ threshs' = [i \in DOMAIN all |-> FracMul(all[i], sfreq)]
    /\ pc' = "done"
    /\ UNCHANGED <<geomVars, times, warned, raised, codecVars, argVars, sfreq,
                   sample_thresh, vels, segments, classes, n_samples, i_start,
                   i_stop, seg_idx, th_0>>

NextMad == MadBegin \/ MadIterate \/ MadConverge

SpecMad == InitMad /\ [][NextMad]_vars

(***************************************************************************)
(* The three threshold classifiers called with irregularly sampled         *)
(* timestamps.  th_0 is set in a call of mad_velocity_thresh only, which   *)
(* tells its loop from the loop of classify_dispersion.                    *)
(***************************************************************************)
InitIrregular ==
    /\ InitVelocity \/ InitDispersion \/ InitMad
    /\ time.iter /\ Irregular(time.t)

NextIrregular ==
    \/ NextVelocity
    \/ (IsNaN(th_0) /\ NextDispersion)
    \/ (~IsNaN(th_0) /\ NextMad)

SpecIrregular == InitIrregular /\ [][NextIrregular]_vars

(***************************************************************************)
(* _get_time(x, time, warn_sfreq=True) on its own, with every kind of time *)
(* argument: any whole-number rate, and timestamp arrays of any length.    *)
(***************************************************************************)
ResolverArgs ==
    {[iter |-> FALSE, t |-> <<>>, hz |-> r] : r \in (-MaxHz)..MaxHz}
        \cup {[iter |-> TRUE, t |-> s, hz |-> 0] :
                s \in {s \in SeqsUpTo(0..MaxTime, MaxTime + 1) : StrictlyIncreasing(s)}}

InitTime ==
    /\ \E n \in 0..MaxGaze : x = [i \in 1..n |-> 0]
    /\ y = x
    /\ time \in ResolverArgs
    /\ threshold = 0 /\ window_len = <<0, 1>> /\ return_discrete = FALSE
    /\ th_init = 0
    /\ pc = "_get_time"
    /\ times = <<>> /\ warned = {} /\ raised = ""
    /\ IdleCodec /\ IdleLocals /\ IdleGeom

GetTime ==
    /\ pc = "_get_time"
    /\ LET tm == get_time(x, time)
       IN  /\ raised' = tm.raised
           /\ times' = tm.times
           /\ sfreq' = tm.sfreq
           /\ warned' = warned \cup tm.warned
           /\ pc' = IF tm.raised = "" THEN "done" ELSE "failed"
    /\ UNCHANGED <<geomVars, codecVars, argVars, sample_thresh, vels, segments, classes,
                   n_samples, i_start, i_stop, seg_idx, th_0, threshs,
                   angular_vel, saccade_thresh>>

NextTime == GetTime

SpecTime == InitTime /\ [][NextTime]_vars

(***************************************************************************)
(* get_segment_distance as a state machine of one step.                    *)
(***************************************************************************)
\* gaze positions whose distances are whole numbers
Points == {<<0, 0>>, <<3, 4>>}

\* discrete segmentations: event times in any order, also behind the last
\* sample
DiscreteSegments == SeqsUpTo(0..(MaxTime + 1), MaxEvents)

\* continuous segmentations of n samples: any index array of length n, and
\* arrays of other lengths
ContinuousSegments(n) ==
    [1..n -> 0..MaxIndex]
        \cup {[i \in 1..k |-> i] : k \in (0..(MaxSpan + 1)) \ {n}}

InitSegment ==
    /\ times \in {s \in SampleTimes : Len(s) <= MaxSpan}
    /\ \E g \in [1..Len(times) -> Points] :
         /\ x = [i \in DOMAIN g |-> g[i][1]]
         /\ y = [i \in DOMAIN g |-> g[i][2]]
    /\ from_discrete \in BOOLEAN
    /\ return_start_end_pos \in BOOLEAN
    /\ segments \in IF from_discrete THEN DiscreteSegments
                    ELSE ContinuousSegments(Len(times))
    /\ seg_times = <<>> /\ start_pos = <<>> /\ end_pos = <<>>
    /\ distances = <<>> /\ result = <<>>
    /\ time = [iter |-> FALSE, t |-> <<>>, hz |-> 1]
    /\ threshold = 0 /\ window_len = <<0, 1>> /\ return_discrete = FALSE
    /\ th_init = 0
    /\ pc = "get_segment_distance"
    /\ warned = {} /\ raised = ""
    /\ discrete_times = <<>> /\ discrete_values = <<>>
    /\ indices = <<>> /\ values = <<>>
    /\ calls = <<>>
    /\ orig = [form |-> "segments", a |-> segments, b |-> <<>>]
    /\ sfreq = NaN /\ sample_thresh = NaN /\ vels = <<>> /\ classes = <<>>
    /\ n_samples = 0 /\ i_start = 0 /\ i_stop = 0 /\ seg_idx = 0
    /\ th_0 = NaN /\ threshs = <<>> /\ angular_vel = <<>> /\ saccade_thresh = NaN

GetSegmentDistance ==
    /\ pc = "get_segment_distance"
    /\ LET r == get_segment_distance(x, y, times, segments, from_discrete,
                                     return_start_end_pos)
       IN  /\ raised' = r.raised
           /\ warned' = warned \cup r.warned
           /\ segments' = r.segments
           /\ seg_times' = r.seg_times
           /\ start_pos' = r.start_pos
           /\ end_pos' = r.end_pos
           /\ distances' = r.distances
           /\ result' = r.out
           /\ pc' = IF r.raised = "" THEN "done" ELSE "failed"
    /\ UNCHANGED <<times, codecVars, argVars, from_discrete, return_start_end_pos,
                   sfreq, sample_thresh, vels, classes, n_samples, i_start,
                   i_stop, seg_idx, th_0, threshs, angular_vel, saccade_thresh>>

NextSegment == GetSegmentDistance

SpecSegment == InitSegment /\ [][NextSegment]_vars

(***************************************************************************)
(* Properties of the codec.                                                *)
(***************************************************************************)
PairSet(ts, vs) == {<<ts[k], vs[k]>> : k \in DOMAIN ts}

AfterD2C == orig.form = "discrete" /\ calls = <<"discrete_to_continuous">>

RoundTripDone ==
    /\ orig.form = "discrete"
    /\ calls = <<"discrete_to_continuous", "continuous_to_discrete">>

ReExpansionDone ==
    /\ orig.form = "continuous"
    /\ calls = <<"continuous_to_discrete", "discrete_to_continuous">>

\* the discrete list is one the round trip is claimed for: not empty,
\* strictly increasing event times, each of them a sample time
MatchesTimes ==
    /\ orig.a # <<>>
    /\ StrictlyIncreasing(orig.a)
    /\ Range(orig.a) \subseteq Range(times)

\* C1: continuous_to_discrete after discrete_to_continuous gives back
\* exactly the (time, value) pairs of the original discrete list, for every
\* list with strictly increasing times that are sample times.
C1_RoundTrip ==
    (RoundTripDone /\ MatchesTimes) =>
        /\ raised = ""
        /\ PairSet(discrete_times, discrete_values) = PairSet(orig.a, orig.b)

\* the events of the caller's list that are not later than sample i
EventsUpTo(i) == {k \in DOMAIN orig.a : orig.a[k] <= times[i]}

\* the one of them that is last in ascending time order (of equal times, the
\* one later in the list)
LastEventUpTo(i) ==
    CHOOSE k \in EventsUpTo(i) :
        \A j \in EventsUpTo(i) :
            orig.a[j] < orig.a[k] \/ (orig.a[j] = orig.a[k] /\ j <= k)

C2_Example ==
    /\ times = <<0, 1, 2, 3>>
    /\ orig.a = <<2>>
    /\ orig.b = <<Saccade>>

\* C2: after discrete_to_continuous every sample carries the ordinal (its
\* rank in ascending time order, from 1) and the value of the last event
\* not later than the sample, and ordinal 0 if there is none; the example
\* with one Saccade event at the third of four samples gives indices
\* 0,0,1,1 and values unset, unset, Saccade, Saccade.
C2_LastEventAtOrBefore ==
    AfterD2C =>
        /\ Len(indices) = Len(times) /\ Len(values) = Len(times)
        /\ \A i \in DOMAIN times :
             IF EventsUpTo(i) = {}
             THEN indices[i] = 0
             ELSE /\ indices[i] = Cardinality(EventsUpTo(i))
                  /\ values[i] = orig.b[LastEventUpTo(i)]
        /\ C2_Example =>
             /\ indices = <<0, 0, 1, 1>>
             /\ values[3] = Saccade /\ values[4] = Saccade
             /\ values[1] = values[2] /\ values[1] # Saccade

C2_Witness == AfterD2C /\ C2_Example

\* a continuous labelling the re-expansion is claimed for
WellFormedContinuous ==
    /\ NonDecreasing(orig.a)
    /\ \A i, j \in DOMAIN orig.a : orig.a[i] = orig.a[j] => orig.b[i] = orig.b[j]

\* C9 (as stated): discrete_to_continuous after continuous_to_discrete gives
\* back the original index array and the original label array.
C9_ReExpansionExact ==
    (ReExpansionDone /\ WellFormedContinuous) =>
        /\ indices = orig.a
        /\ values = orig.b

\* the number of the run sample i lies in, counted from 1
RunNumber(i) == 1 + Cardinality({j \in 2..i : orig.a[j] > orig.a[j - 1]})

\* C9 (amended): the re-expansion gives back the label array exactly and
\* the index array renumbered by runs from 1; it equals the original index
\* array only if that one numbers its runs 1, 2, ...
C9_ReExpansionRenumbered ==
    (ReExpansionDone /\ WellFormedContinuous) =>
        /\ raised = ""
        /\ values = orig.b
        /\ \A i \in DOMAIN times : indices[i] = RunNumber(i)

C9_Witness ==
    /\ ReExpansionDone /\ WellFormedContinuous
    /\ orig.a = <<0, 0, 1>>
    /\ orig.b = <<Fixation, Fixation, Saccade>>
    /\ indices = <<1, 1, 2>>

\* C10: the value of every sample earlier than the first event differs from
\* every label the caller supplied.
C10_UnsetDistinct ==
    AfterD2C =>
        \A i \in DOMAIN times :
            EventsUpTo(i) = {} => values[i] \notin Range(orig.b)

\* the caller's continuous arrays are not all as long as times
Mismatched ==
    /\ orig.form = "continuous"
    /\ Len(orig.a) # Len(times) \/ Len(orig.b) # Len(times)

\* C13: continuous_to_discrete given an index or a value array whose length
\* differs from that of times ends with an error and returns no discrete
\* list: nothing has been emitted.
C13_MismatchReported ==
    (Mismatched /\ calls = <<"continuous_to_discrete">>) =>
        /\ raised = "ValueError"
        /\ discrete_times = <<>> /\ discrete_values = <<>>

\* the index array fits and is not empty, the value array is too short
C13_Witness ==
    /\ Mismatched /\ calls = <<"continuous_to_discrete">>
    /\ Len(times) = 2 /\ Len(indices) = 2 /\ Len(values) = 1
    /\ raised = "ValueError"
    /\ discrete_times = <<>>

\* the caller's list rearranged by the permutation p of its positions
Rearranged(p) ==
    [a |-> [k \in DOMAIN orig.a |-> orig.a[p[k]]],
     b |-> [k \in DOMAIN orig.b |-> orig.b[p[k]]]]

DistinctTimes == \A j, k \in DOMAIN orig.a : j # k => orig.a[j] # orig.a[k]

\* C16: for a discrete list of pairwise distinct times, discrete_to_continuous
\* gives the same index array and the same value array for every order of
\* the (time, value) pairs.
C16_OrderIndependent ==
    (AfterD2C /\ DistinctTimes) =>
        \A p \in Permutations(DOMAIN orig.a) :
            discrete_to_continuous(times, Rearranged(p).a, Rearranged(p).b)
                = [indices |-> indices, values |-> values]

\* a list given latest event first
C16_Witness ==
    /\ AfterD2C /\ DistinctTimes
    /\ times = <<0, 1, 2, 3>>
    /\ orig.a = <<2, 1>> /\ orig.b = <<Fixation, Saccade>>
    /\ indices = <<0, 1, 2, 2>>
    /\ values[2] = Saccade /\ values[3] = Fixation

\* event j of the list given comes before event k in the order of time, and
\* for equal times in the order given
EventBefore(j, k) ==
    orig.a[j] < orig.a[k] \/ (orig.a[j] = orig.a[k] /\ j < k)

\* the ordinal of event k: its place in that order
OrdinalOf(k) == 1 + Cardinality({j \in DOMAIN orig.a : EventBefore(j, k)})

\* the samples event k selects, and the first of them (0 when there is none)
SelectedBy(k) == {i \in DOMAIN times : times[i] >= orig.a[k]}
FirstSelected(k) == IF SelectedBy(k) = {} THEN 0 ELSE MinOf(SelectedBy(k))

\* events j and k select the same first sample
Collide(j, k) == FirstSelected(j) # 0 /\ FirstSelected(j) = FirstSelected(k)

\* C21: when several events select the same first sample, the ordinals of
\* all but the latest of them (in time, and for equal times in the list
\* given) appear at no sample, and the samples from that one up to the first
\* sample of a later event carry the ordinal and the value of the latest.
C21_LastWins ==
    AfterD2C =>
        \A k \in DOMAIN orig.a :
            /\ \A j \in DOMAIN orig.a :
                    (Collide(j, k) /\ EventBefore(j, k)) =>
                        OrdinalOf(j) \notin Range(indices)
            /\ \A i \in SelectedBy(k) :
                    (\A l \in DOMAIN orig.a :
                         EventBefore(k, l) => i \notin SelectedBy(l)) =>
                        indices[i] = OrdinalOf(k) /\ values[i] = orig.b[k]

\* two events of one time and different labels: the second is the one kept
C21_Witness ==
    /\ AfterD2C
    /\ orig.a = <<1, 1>> /\ orig.b = <<Fixation, Saccade>>
    /\ times = <<0, 1, 2>>
    /\ indices = <<0, 2, 2>>
    /\ values[2] = Saccade /\ values[3] = Saccade

\* continuous_to_discrete has converted arrays given in continuous form
AfterC2D == orig.form = "continuous" /\ calls = <<"continuous_to_discrete">>

\* C19: continuous_to_discrete emits exactly one (time, value) entry for
\* each distinct value of the index array, also when the index array is not
\* sorted along time; for the indices [0, 1, 0, 1] it emits two entries.
C19_OnePerIndex ==
    (AfterC2D /\ raised = "") =>
        /\ Len(discrete_times) = Cardinality(Range(orig.a))
        /\ Len(discrete_values) = Len(discrete_times)
        /\ orig.a = <<0, 1, 0, 1>> => Len(discrete_times) = 2

\* sample i is the first of a run of the index array given
OpensRun(i) == i = 1 \/ orig.a[i] # orig.a[i - 1]

\* C22: for an index array as long as the (strictly increasing) times, the
\* list continuous_to_discrete returns starts with (times[0], values[0]), its
\* times are strictly increasing, and each entry is the time and value of a
\* sample that is the first of its run.
C22_StartsAtFirstSample ==
    (AfterC2D /\ raised = "") =>
        /\ discrete_times # <<>>
        /\ discrete_times[1] = times[1] /\ discrete_values[1] = orig.b[1]
        /\ StrictlyIncreasing(discrete_times)
        /\ \A k \in DOMAIN discrete_times :
              \E i \in DOMAIN times :
                  /\ OpensRun(i)
                  /\ discrete_times[k] = times[i]
                  /\ discrete_values[k] = orig.b[i]

\* an index array that starts at its least index and has a second run
C22_Witness ==
    /\ AfterC2D /\ raised = ""
    /\ times = <<0, 2, 3>> /\ orig.a = <<0, 0, 2>>
    /\ orig.b = <<Fixation, Fixation, Saccade>>
    /\ discrete_times = <<0, 3>>
    /\ discrete_values = <<Fixation, Saccade>>

(***************************************************************************)
(* Properties of the classifiers.                                          *)
(***************************************************************************)
\* a classifier has returned its output in continuous form
ContinuousOutput == pc = "done" /\ raised = "" /\ ~return_discrete

\* C3: in every continuous classifier output the index goes up by exactly 1
\* where the label changes and stays where it does not (so it never falls).
C3_SegmentMonotone ==
    ContinuousOutput =>
        \A i \in 2..Len(segments) :
            segments[i] = segments[i - 1]
                            + (IF classes[i] # classes[i - 1] THEN 1 ELSE 0)

C4_Scenario ==
    /\ x = <<0, 0, 10>> /\ y = <<0, 0, 0>>
    /\ time = [iter |-> FALSE, t |-> <<>>, hz |-> 1]
    /\ threshold = 5

\* C4: x = [0,0,10], y = [0,0,0] at 1 Hz with threshold 5 gives the sample
\* threshold 5, the velocities [0,0,10] and the labels Fixation, Fixation,
\* Saccade.
C4_VelocityScenario ==
    (ContinuousOutput /\ C4_Scenario) =>
        /\ sample_thresh = Frac(5, 1)
        /\ vels = <<0, 0, 10>>
        /\ classes = <<Fixation, Fixation, Saccade>>

\* the samples at which the label differs from the one before
LabelChanges == {i \in 2..Len(classes) : classes[i] # classes[i - 1]}

\* C24: in the continuous output of classify_velocity the first index is 0
\* and each later index is the one before it, plus 1 where the label
\* changes; so the samples of one index share one label and the last index
\* is the number of label changes.
C24_VelocityGrouping ==
    (ContinuousOutput /\ vels # <<>>) =>
        /\ Len(segments) = Len(x) /\ Len(classes) = Len(x)
        /\ segments[1] = 0
        /\ \A i \in 2..Len(segments) :
              segments[i] = segments[i - 1] + (IF i \in LabelChanges THEN 1 ELSE 0)
        /\ \A i, j \in DOMAIN segments :
              segments[i] = segments[j] => classes[i] = classes[j]
        /\ segments[Len(segments)] = Cardinality(LabelChanges)

\* a saccade between two fixations
C24_Witness ==
    /\ ContinuousOutput /\ vels # <<>>
    /\ classes = <<Fixation, Saccade, Fixation>>
    /\ segments = <<0, 1, 2>>

\* v (per sample) against threshold / sfreq, by cross-multiplication
AboveThreshold(v) == v * sfreq[1] > threshold * sfreq[2]
AtThreshold(v) == v * sfreq[1] = threshold * sfreq[2]

\* the length of the one step of a two-sample recording
IsStepLength(d) == d >= 0 /\ d * d = SquaredStep(x, y, 1)

\* C5: classify_velocity labels a sample Saccade exactly when its velocity
\* is strictly above threshold / sfreq; a two-sample recording whose step
\* equals threshold / sfreq is all Fixation, and one whose step is above it
\* has the sample carrying the step labelled Saccade.
C5_StrictThreshold ==
    ContinuousOutput =>
        /\ \A i \in DOMAIN classes :
             classes[i] = (IF AboveThreshold(vels[i]) THEN Saccade ELSE Fixation)
        /\ Len(x) = 2 =>
             \A d \in 0..MaxNorm :
                 IsStepLength(d) =>
                     /\ d \in Range(vels)
                     /\ AtThreshold(d) => classes = <<Fixation, Fixation>>
                     /\ AboveThreshold(d) =>
                          \A i \in DOMAIN vels : vels[i] = d => classes[i] = Saccade

C5_Witness ==
    /\ ContinuousOutput /\ pc = "done" /\ vels # <<>>
    /\ Len(x) = 2
    /\ \E d \in 1..MaxNorm : IsStepLength(d) /\ AtThreshold(d)
    /\ classes = <<Fixation, Fixation>>

\* C17: the velocity array classify_velocity has built is the one
\* mad_velocity_thresh builds from the same x and y: a displacement is put
\* on the same sample by both.
C17_OnePadConvention ==
    (pc = "done" /\ vels # <<>> /\ IsNaN(th_0)) => vels = VelsOfMad(x, y)

\* C6: mad_velocity_thresh never returns not-a-number: an empty population
\* below the threshold ends the call with an error instead.
C6_DegenerateReported == pc = "done" => ~IsNaN(saccade_thresh)

\* how often v occurs in the array s
Count(s, v) == Cardinality({i \in DOMAIN s : s[i] = v})

\* the histogram of s over min..max rises to one peak and falls from it
Unimodal(s) ==
    s # <<>> /\
    LET lo == MinOf(Range(s))
        hi == MaxOf(Range(s))
    IN  \E peak \in lo..hi :
            /\ \A v \in lo..(peak - 1) : Count(s, v) <= Count(s, v + 1)
            /\ \A v \in peak..(hi - 1) : Count(s, v) >= Count(s, v + 1)

\* the rate _get_time derives from the arguments
RateOfArgs == get_time(x, time).sfreq

\* the population C7 speaks of: unimodal, every velocity below th0
UnimodalBelowTh0 ==
    /\ Unimodal(VelsOfMad(x, y))
    /\ \A i \in DOMAIN VelsOfMad(x, y) :
         FracLT(Frac(VelsOfMad(x, y)[i], 1), FracDiv(Frac(th_init, 1), RateOfArgs))

\* C7 (as stated): for such a population the returned threshold is <= th0.
C7_ReturnedBelowTh0 ==
    (pc = "done" /\ threshs # <<>> /\ UnimodalBelowTh0) =>
        FracLE(saccade_thresh, Frac(th_init, 1))

\* the thresholds the iteration tried: the history without its last element
Tried == SubSeq(threshs, 1, Len(threshs) - 1)

\* what holds of the result instead
C7_Result ==
    /\ \A i \in DOMAIN Tried : FracLE(Tried[i], Frac(th_init, 1))
    /\ \A i \in 1..(Len(Tried) - 1) : FracLT(Tried[i + 1], Tried[i])
    /\ \/ IsNaN(saccade_thresh)
       \/ FracLE(FracSub(Tried[Len(Tried)], sfreq), saccade_thresh)

\* the loop cannot go round more often than this: every further trial is
\* more than one per-sample unit below the one before, and none is negative
WithinIterationBound ==
    FracLE(Frac(Len(threshs), 1), FracDiv(Frac(th_init, 1), RateOfArgs))

\* C7 (amended): for such a population the estimator terminates (the loop
\* goes round at most th0 / sfreq times before it returns); every threshold
\* it tried is <= th0 and lower than the one before, and the value returned
\* is not-a-number or at least the last threshold tried less one per-sample
\* unit.  It may exceed th0.
C7_TerminatesTriedBelowTh0 ==
    UnimodalBelowTh0 =>
        /\ pc \in {"mad_velocity_thresh", "while", "done"}
        /\ pc = "while" =>
             /\ WithinIterationBound
             /\ \A i \in DOMAIN threshs :
                  FracLE(FracMul(threshs[i], sfreq), Frac(th_init, 1))
        /\ pc = "done" => C7_Result

C7_Witness ==
    /\ pc = "done" /\ UnimodalBelowTh0
    /\ vels = <<0, 1, 1, 2>>
    /\ Len(threshs) >= 2
    /\ FracGT(saccade_thresh, Frac(th_init, 1))

\* C25: the history mad_velocity_thresh returns starts with th0; every
\* threshold tried after another is more than sfreq (one per-sample unit)
\* below it; the last element is a candidate not more than sfreq below the
\* last threshold tried, and it is the threshold returned.
C25_History ==
    (pc = "done" /\ threshs # <<>>) =>
        /\ Len(threshs) >= 2
        /\ threshs[1] = Frac(th_init, 1)
        /\ \A i \in 1..(Len(Tried) - 1) :
              FracGT(FracSub(Tried[i], Tried[i + 1]), sfreq)
        /\ FracLE(FracSub(Tried[Len(Tried)], threshs[Len(threshs)]), sfreq)
        /\ threshs[Len(threshs)] = saccade_thresh

IsConstant(s) == \A i, j \in DOMAIN s : s[i] = s[j]

\* the signal C8 speaks of
ConstantSignal ==
    /\ IsConstant(x) /\ IsConstant(y)
    /\ n_samples >= 1 /\ Len(x) >= n_samples
    /\ threshold >= 0

\* C8: a constant signal at least one window long comes out as one segment,
\* labelled Fixation, over all samples.
C8_ConstantIsOneFixation ==
    (pc \in {"done", "failed"} /\ ConstantSignal) =>
        /\ ContinuousOutput
        /\ Len(classes) = Len(x) /\ Len(segments) = Len(x)
        /\ \A i \in DOMAIN classes : classes[i] = Fixation
        /\ IsConstant(segments)

C8_Witness ==
    /\ ContinuousOutput /\ ConstantSignal
    /\ Len(x) = MaxWalk /\ n_samples = 2
    /\ seg_idx = 2
    /\ \A i \in DOMAIN classes : classes[i] = Fixation

(***************************************************************************)
(* Properties of the time base (_get_time, sfreq_to_times).                *)
(***************************************************************************)
\* _get_time has ended, with a result or with an exception
Resolved == pc \in {"done", "failed"}

\* a time argument no rate can be derived from
InvalidTimeArg == IF time.iter THEN Len(time.t) < 2 ELSE time.hz <= 0

\* C11: _get_time ends with an error and gives no result when the timestamp
\* array has fewer than 2 elements or the scalar rate is <= 0.
C11_InvalidRejected ==
    (Resolved /\ InvalidTimeArg) => (pc = "failed" /\ raised # "")

\* C12: for a scalar rate sfreq > 0 and a recording of N samples, _get_time
\* gives exactly N times, times[i] = i / sfreq, and the rate it was given.
C12_ScalarTimebase ==
    (Resolved /\ ~time.iter /\ time.hz > 0) =>
        /\ pc = "done"
        /\ Len(times) = Len(x)
        /\ \A i \in DOMAIN times : times[i] = Frac((i - 1) * TicksPerSec, time.hz)
        /\ sfreq = Frac(time.hz, 1)

(***************************************************************************)
(* Properties of get_segment_distance.                                     *)
(***************************************************************************)
\* get_segment_distance has ended, with a result or with an exception
SegmentEnded == pc \in {"done", "failed"} /\ orig.form = "segments"

\* nothing of the geometry has been computed
NothingComputed ==
    /\ seg_times = <<>> /\ start_pos = <<>> /\ end_pos = <<>>
    /\ distances = <<>> /\ result = <<>>

\* C14: get_segment_distance given a continuous segmentation that is not as
\* long as times ends with ValueError before any position or distance is
\* computed; a discrete segmentation of any length is not checked for its
\* length: the call never ends with ValueError, and when every event time is
\* a sample time it returns one distance per event.
C14_ShapeMismatch ==
    SegmentEnded =>
        /\ (~from_discrete /\ Len(orig.a) # Len(times)) =>
             (pc = "failed" /\ raised = "ValueError" /\ NothingComputed)
        /\ from_discrete =>
             /\ raised \in {"", "IndexError"}
             /\ Range(orig.a) \subseteq Range(times) =>
                  (pc = "done" /\ Len(distances) = Len(orig.a))

C14_Witness ==
    /\ SegmentEnded /\ ~from_discrete
    /\ Len(times) = 2 /\ Len(orig.a) = 3
    /\ pc = "failed" /\ raised = "ValueError" /\ NothingComputed

\* the positions of the segments have been recorded
PositionsRecorded ==
    orig.form = "segments" /\ pc \in {"done", "failed"} /\ start_pos # <<>>

\* the gaze position at sample i
PositionAt(i) == <<x[i], y[i]>>

\* the samples from event time k up to and including the next event time
\* (behind the last event: up to the end of the recording)
Within(k) ==
    {i \in DOMAIN times :
        /\ seg_times[k] <= times[i]
        /\ k < Len(seg_times) => times[i] <= seg_times[k + 1]}

\* C26: get_segment_distance records for each event span the positions of
\* the first and of the last sample with t_k <= times <= t_{k+1}; for a
\* continuous segmentation the end position of a segment that is not the
\* last is the position of the first sample of the next segment, which is
\* the start position of that one, and the end position of the last segment
\* is the position of the final sample.
C26_InclusiveSpans ==
    PositionsRecorded =>
        /\ Len(start_pos) = Len(seg_times) /\ Len(end_pos) = Len(seg_times)
        /\ \A k \in DOMAIN seg_times :
              /\ Within(k) # {}
              /\ start_pos[k] = PositionAt(MinOf(Within(k)))
              /\ end_pos[k] = PositionAt(MaxOf(Within(k)))
        /\ ~from_discrete =>
              /\ \A k \in 1..(Len(seg_times) - 1) :
                    /\ end_pos[k] = start_pos[k + 1]
                    /\ \E i \in DOMAIN times :
                          /\ times[i] = seg_times[k + 1]
                          /\ orig.a[i] # orig.a[i - 1]
                          /\ end_pos[k] = PositionAt(i)
              /\ end_pos[Len(seg_times)] = PositionAt(Len(times))

\* the gaze moves with the third sample, which opens the second segment
C26_Witness ==
    /\ PositionsRecorded /\ ~from_discrete /\ pc = "done"
    /\ times = <<0, 1, 2>> /\ orig.a = <<0, 0, 1>>
    /\ x = <<0, 0, 3>> /\ y = <<0, 0, 4>>
    /\ seg_times = <<0, 2>>
    /\ end_pos = <<<<3, 4>>, <<3, 4>>>>
    /\ distances = <<5, 0>>

\* a continuous segmentation: one index per sample, never falling
ContinuousSegmentation ==
    /\ orig.form = "segments" /\ ~from_discrete
    /\ Len(orig.a) = Len(times)
    /\ \A i \in 2..Len(orig.a) : orig.a[i - 1] <= orig.a[i]

\* the first sample of the segment sample i belongs to
SegmentStart(i) == MinOf({j \in DOMAIN orig.a : orig.a[j] = orig.a[i]})

\* the sample at which that segment ends: the first sample of the next
\* segment, and the final sample for the last segment
SegmentEnd(i) ==
    LET later == {j \in DOMAIN orig.a : orig.a[j] > orig.a[i]}
    IN  IF later = {} THEN Len(times) ELSE MinOf(later)

\* C27: for a continuous segmentation get_segment_distance returns an array
\* of len(times) distances, and if asked two arrays of len(times) positions,
\* in which every sample carries the distance, the start position and the
\* end position of the segment it belongs to; the samples of one segment
\* share one value.
C27_ContinuousOutput ==
    (ContinuousSegmentation /\ pc \in {"done", "failed"}) =>
        /\ pc = "done" /\ raised = ""
        /\ LET dist == IF return_start_end_pos THEN result[1] ELSE result
           IN  /\ Len(dist) = Len(times)
               /\ \A i \in DOMAIN times :
                     dist[i] = DistanceOf(PositionAt(SegmentStart(i)),
                                          PositionAt(SegmentEnd(i)))
               /\ \A i, j \in DOMAIN times :
                     orig.a[i] = orig.a[j] => dist[i] = dist[j]
        /\ return_start_end_pos =>
              /\ Len(result) = 3
              /\ Len(result[2]) = Len(times) /\ Len(result[3]) = Len(times)
              /\ \A i \in DOMAIN times :
                    /\ result[2][i] = PositionAt(SegmentStart(i))
                    /\ result[3][i] = PositionAt(SegmentEnd(i))

\* two samples at rest and a third one elsewhere, positions asked for
C27_Witness ==
    /\ ContinuousSegmentation /\ pc = "done" /\ return_start_end_pos
    /\ times = <<0, 1, 2>> /\ orig.a = <<0, 0, 1>>
    /\ x = <<0, 0, 3>> /\ y = <<0, 0, 4>>
    /\ result = << <<5, 5, 0>>,
                   << <<0, 0>>, <<0, 0>>, <<3, 4>> >>,
                   << <<3, 4>>, <<3, 4>>, <<3, 4>> >> >>

\* the time of the k-th earliest event of the list given
KthEarliest(k) ==
    CHOOSE v \in Range(orig.a) :
        /\ Cardinality({j \in DOMAIN orig.a : orig.a[j] < v}) < k
        /\ k <= Cardinality({j \in DOMAIN orig.a : orig.a[j] <= v})

\* the samples from the k-th earliest event up to and including the next
EventSpan(k) ==
    {i \in DOMAIN times :
        /\ KthEarliest(k) <= times[i]
        /\ k < Len(orig.a) => times[i] <= KthEarliest(k + 1)}

\* C30: get_segment_distance given a discrete segmentation returns one entry
\* per event, entry k for the k-th earliest event, whatever the order of the
\* events in the list given; it returns when every event time is a sample
\* time.
C30_DiscreteByTime ==
    (SegmentEnded /\ from_discrete) =>
        /\ Range(orig.a) \subseteq Range(times) => pc = "done"
        /\ pc = "done" =>
             LET dist == IF return_start_end_pos THEN result[1] ELSE result
             IN  /\ Len(dist) = Len(orig.a)
                 /\ \A k \in DOMAIN orig.a :
                       /\ seg_times[k] = KthEarliest(k)
                       /\ dist[k] = DistanceOf(PositionAt(MinOf(EventSpan(k))),
                                               PositionAt(MaxOf(EventSpan(k))))
                       /\ return_start_end_pos =>
                             /\ result[2][k] = PositionAt(MinOf(EventSpan(k)))
                             /\ result[3][k] = PositionAt(MaxOf(EventSpan(k)))

\* the later event given first: the first entry is the one of the event
\* given second
C30_Witness ==
    /\ SegmentEnded /\ from_discrete /\ pc = "done" /\ ~return_start_end_pos
    /\ times = <<0, 1, 2>> /\ orig.a = <<2, 0>>
    /\ x = <<0, 0, 3>> /\ y = <<0, 0, 4>>
    /\ seg_times = <<0, 2>>
    /\ result = <<5, 0>>

(***************************************************************************)
(* Irregular sampling.                                                     *)
(***************************************************************************)
\* the classifier has not yet resolved its time argument
AtCall == pc \in {"classify_velocity", "classify_dispersion", "mad_velocity_thresh"}

\* timestamps whose steps are not all equal
UnevenSteps == time.iter /\ \E i, j \in 1..(Len(time.t) - 1) :
                   time.t[i + 1] - time.t[i] # time.t[j + 1] - time.t[j]

\* 1 / mean(delta): the number of steps over the time they take
RateOfMeanStep == Frac((Len(time.t) - 1) * TicksPerSec, time.t[Len(time.t)] - time.t[1])

\* C15: called with timestamps of uneven steps, classify_velocity,
\* classify_dispersion and mad_velocity_thresh warn (WARN_SFREQ) and go on
\* with sfreq = 1 / mean(delta): the warning ends no call (the one exception
\* a call can end with is that of a dispersion window of no samples), and
\* what is computed is what that rate gives: the sample threshold and the
\* labels of classify_velocity, the window of classify_dispersion, the first
\* threshold of mad_velocity_thresh.
C15_IrregularAdvisory ==
    UnevenSteps =>
        /\ AtCall => (warned = {} /\ raised = "")
        /\ ~AtCall =>
             /\ "WARN_SFREQ" \in warned
             /\ sfreq = RateOfMeanStep
             /\ times = time.t
             /\ raised # "" => (pc = "failed" /\ n_samples = 0)
        /\ (pc = "done" /\ vels # <<>> /\ IsNaN(th_0)) =>
             /\ raised = ""
             /\ sample_thresh = FracDiv(Frac(threshold, 1), RateOfMeanStep)
             /\ ~return_discrete =>
                  classes = [i \in DOMAIN x |->
                               IF vels[i] * RateOfMeanStep[1] > threshold * RateOfMeanStep[2]
                               THEN Saccade ELSE Fixation]
        /\ (pc \in {"while", "done", "failed"} /\ IsNaN(th_0)) =>
             n_samples = FracInt(FracMul(RateOfMeanStep, window_len))
        /\ (pc = "while" /\ ~IsNaN(th_0) /\ threshs = <<>>) =>
             th_0 = FracDiv(Frac(th_init, 1), RateOfMeanStep)
        /\ (pc = "done" /\ ~IsNaN(th_0)) =>
             saccade_thresh = threshs[Len(threshs)]

\* classify_velocity has returned labels for timestamps 0, 1, 3
C15_Witness ==
    /\ UnevenSteps /\ time.t = <<0, 1, 3>>
    /\ pc = "done" /\ raised = "" /\ ~return_discrete
    /\ "WARN_SFREQ" \in warned
    /\ Saccade \in Range(classes) /\ Fixation \in Range(classes)

(***************************************************************************)
(* Termination of classify_dispersion.                                     *)
(***************************************************************************)
\* classify_dispersion is in its window loop with a window of n >= 1 samples
WindowOfSamples == pc = "while" /\ n_samples >= 1

\* the window starts inside the recording and is n_samples long; while the
\* loop goes on it is not empty, so that one of the two branches is taken
WindowInRange ==
    WindowOfSamples =>
        /\ raised = ""
        /\ 0 <= i_start /\ i_start <= Len(x)
        /\ i_stop = i_start + n_samples
        /\ i_stop <= Len(x) => Slice(x, i_start, i_stop) # <<>>

\* the result of a call with a window of n >= 1 samples
CompleteResult ==
    (pc \in {"done", "failed"} /\ n_samples >= 1 /\ IsNaN(th_0) /\ vels = <<>>) =>
        /\ pc = "done" /\ raised = ""
        /\ i_stop > Len(x)
        /\ Len(segments) = Len(x) /\ Len(classes) = Len(x)
        /\ \A i \in DOMAIN classes : classes[i] \in {Fixation, Saccade}

\* a pass of the window loop either leaves the loop or moves i_start up
LoopAdvances ==
    WindowOfSamples =>
        \/ pc' = "done" /\ i_stop > Len(x)
        \/ pc' = "while" /\ i_start' > i_start /\ n_samples' = n_samples

\* C18: with a window of n >= 1 samples every pass of the window loop of
\* classify_dispersion moves i_start up or leaves the loop, i_start stays
\* within the N samples and no pass fails, so the loop is left after at most
\* N + 1 passes; the call then returns segments and classes of N entries.
C18_DispersionTerminates ==
    [](WindowInRange /\ CompleteResult) /\ [][LoopAdvances]_vars

\* a call that has slid its window, found a fixation, and returned
C18_Witness ==
    /\ pc = "done" /\ raised = "" /\ IsNaN(th_0) /\ vels = <<>>
    /\ n_samples = 2 /\ Len(x) = 4 /\ i_start >= 3
    /\ Fixation \in Range(classes) /\ Saccade \in Range(classes)

(***************************************************************************)
(* The fixations of classify_dispersion.                                   *)
(***************************************************************************)
\* samples a..b (1-based) are labelled Fixation under one segment ordinal
FixationSpan(a, b) ==
    /\ a <= b
    /\ \A i \in a..b : classes[i] = Fixation /\ segments[i] = segments[a]

\* C20: in the output of classify_dispersion every span of samples labelled
\* Fixation under one segment ordinal has dispersion <= threshold; the sample
\* that pushes the dispersion above the threshold is not in the fixation.
C20_FixationWithinThreshold ==
    (pc = "done" /\ raised = "") =>
        \A a, b \in DOMAIN x :
            FixationSpan(a, b) =>
                Disp(SubSeq(x, a, b), SubSeq(y, a, b)) <= threshold

(***************************************************************************)
(* The samples behind the last fixation of classify_dispersion.            *)
(***************************************************************************)
\* the last sample labelled Fixation (counted from 1; 0 when there is none)
LastFixated == MaxOf({0} \cup {i \in DOMAIN classes : classes[i] = Fixation})

\* sample j (counted from 1) lay in a window that was slid on after the last
\* fixation: the windows x[s : s + n_samples] for s = LastFixated..i_start - 1
CoveredBySlide(j) ==
    i_start > LastFixated /\ LastFixated < j /\ j <= i_start - 1 + n_samples

\* C23: in the output of classify_dispersion every sample behind the last
\* fixation, so every sample at or after the final i_start, is a Saccade;
\* it carries the running ordinal if a window slid on after the last
\* fixation covered it and the initial ordinal 0 if none did: nothing is
\* written after the loop.
C23_TrailingSamples ==
    (pc = "done" /\ raised = "") =>
        /\ LastFixated <= i_start
        /\ \A j \in (LastFixated + 1)..Len(x) :
              /\ classes[j] = Saccade
              /\ segments[j] = (IF CoveredBySlide(j) THEN seg_idx ELSE 0)

\* a fixation of three samples, then one slide over the last two samples
C23_Witness ==
    /\ pc = "done" /\ raised = ""
    /\ Len(x) = 5 /\ n_samples = 2
    /\ LastFixated = 3 /\ i_start = 4 /\ seg_idx = 2
    /\ CoveredBySlide(5) /\ segments[5] = 2

(***************************************************************************)
(* Ordinals and labels of classify_dispersion.                             *)
(***************************************************************************)
\* C28: at every step of the window walk of classify_dispersion and in its
\* result, the running seg_idx is even, a sample is a Fixation exactly when
\* its ordinal is odd and a Saccade exactly when its ordinal is even; no
\* ordinal is shared by a Fixation and a Saccade.
C28_OrdinalParity ==
    /\ seg_idx % 2 = 0
    /\ Len(segments) = Len(classes)
    /\ \A i \in DOMAIN classes :
          /\ classes[i] = Fixation <=> segments[i] % 2 = 1
          /\ classes[i] = Saccade <=> segments[i] % 2 = 0
    /\ \A i, j \in DOMAIN classes :
          segments[i] = segments[j] => classes[i] = classes[j]

\* a fixation, and behind it samples a slid window has given the ordinal 2
C28_Witness ==
    /\ pc = "done" /\ raised = ""
    /\ \E i, j \in DOMAIN classes :
          /\ segments[i] = 1 /\ classes[i] = Fixation
          /\ segments[j] = 2 /\ classes[j] = Saccade

\* samples a..b (counted from 1) are a maximal run of Fixation labels
FixationRun(a, b) ==
    /\ a <= b
    /\ \A i \in a..b : classes[i] = Fixation
    /\ a = 1 \/ classes[a - 1] # Fixation
    /\ b = Len(classes) \/ classes[b + 1] # Fixation

\* every maximal run of Fixation labels is at least a window long
RunsAWindowLong ==
    n_samples >= 1 =>
        \A a, b \in DOMAIN classes :
            FixationRun(a, b) => b - a + 1 >= n_samples

\* a label becomes Fixation only in a pass that found the dispersion of its
\* window <= threshold, and only inside the span that pass absorbed
OnlyAbsorbed ==
    \A i \in DOMAIN classes' :
        classes'[i] = Fixation =>
            \/ i \in DOMAIN classes /\ classes[i] = Fixation
            \/ /\ InWindowLoop
               /\ Disp(Slice(x, i_start, i_stop), Slice(y, i_start, i_stop)) <= threshold
               /\ i_start < i /\ i <= i_start'
               /\ i_start' >= i_start + n_samples

\* C29: with a window of n >= 1 samples every maximal run of Fixation
\* labels in the output of classify_dispersion (and during the walk) has at
\* least n samples, and a sample is labelled Fixation only by a pass that
\* absorbed it into a fixation: no label is Fixation from the start.
C29_FixationRuns ==
    [](RunsAWindowLong) /\ [][OnlyAbsorbed]_vars

\* a slide, then a fixation of exactly one window at the end of the recording
C29_Witness ==
    /\ pc = "done" /\ raised = "" /\ n_samples = 2
    /\ classes = <<Saccade, Fixation, Fixation>>
    /\ FixationRun(2, 3)

====
